---- MODULE Spec2Model ----
(***************************************************************************)
(* Model of the recommendation strategy engine of lottery-vision-ai:       *)
(* backend/src/analyzer/ai_recommender.py (class AIRecommender).           *)
(*                                                                         *)
(* Conventions.                                                            *)
(*  - A nullable Python value is a set with at most one element: {} is     *)
(*    None and {v} is the value v.                                         *)
(*  - confidence_score is kept in hundredths (50 stands for 0.5).          *)
(*  - The module-level generator `random` is a seeded deterministic        *)
(*    generator; its state is the variable rng.                            *)
(***************************************************************************)
EXTENDS Integers, Sequences, FiniteSets, TLC

VARIABLES
    client,         \* self.client: TRUE when an AI client was constructed
    pc,             \* "idle", "returned" or "raised"
    lottery_type,   \* arguments of the call in progress / last call
    strategy,
    statistics,
    stats_after,    \* the caller's statistics list as the call left it
    lottery_config, \* the module-level table LOTTERY_CONFIG as calls left it
    seed,           \* seed the generator was given before the call
    rng,            \* state of the generator `random`
    ai,             \* what the collaborator did when it was invoked
    result,         \* the dictionary returned (NoResult when none)
    error,          \* the exception that left the call ("" when none)
    prev,           \* outcome of the first run, kept while the call is replayed
    replayed,       \* TRUE while the second run of the same call is observed
    inv,            \* the requests in flight at once, each with its own
                    \* AIRecommender and its own coroutine frame
    users,          \* table users: id -> row
    credit_transactions,  \* table credit_transactions, in id order
    recommendations,      \* table recommendations, in id order
    req             \* the HTTP requests being served, each on its own session

vars == <<client, pc, lottery_type, strategy, statistics, stats_after,
          lottery_config, seed, rng, ai, result, error, prev, replayed, inv,
          users, credit_transactions, recommendations, req>>

\* the tables and the requests of the web layer
webvars == <<users, credit_transactions, recommendations, req>>

-----------------------------------------------------------------------------
(* Bounds of the model *)

MaxSeed == 2
MaxProfile == 1

-----------------------------------------------------------------------------
(* Python helpers *)

None == {}
Some(v) == {v}
IsNone(o) == o = {}
Val(o) == CHOOSE v \in o : TRUE

Min(a, b) == IF a < b THEN a ELSE b
Max(a, b) == IF a > b THEN a ELSE b

Range(s) == {s[i] : i \in 1..Len(s)}

\* s[:n] for n >= 0
Take(s, n) == SubSeq(s, 1, Min(n, Len(s)))

\* s[-n:] for n >= 1
TakeLast(s, n) == SubSeq(s, Max(1, Len(s) - n + 1), Len(s))

\* [x for x in s if x not in excluded]
FilterNotIn(s, excluded) == SelectSeq(s, LAMBDA x : x \notin excluded)

\* the element of a one-element set
TheOnly(S) == CHOOSE x \in S : TRUE

\* the position of each element of a set of ints in ascending order
AscendingRank(S) == [x \in S |-> Cardinality({y \in S : y < x}) + 1]

\* the elements of S listed by rank
ListByRank(S, rank) ==
    [i \in 1..Cardinality(S) |-> CHOOSE x \in S : rank[x] = i]

\* list(a_set) for a set of small non-negative ints: CPython hashes an int to
\* itself and the table is larger than every element, so iteration ascends.
SetToList(S) == TheOnly({ListByRank(S, rank) : rank \in {AscendingRank(S)}})

\* str(n) for n >= 0, as the sequence of its decimal digits
RECURSIVE Str(_)
Str(n) == IF n < 10 THEN <<n>> ELSE Str(n \div 10) \o <<n % 10>>

-----------------------------------------------------------------------------
(* LOTTERY_CONFIG *)

LOTTERY_CONFIG ==
    [big_lottery |->
        [name |-> "big_lottery_name", numbers_count |-> 6, max_number |-> 49,
         has_special |-> TRUE, special_max |-> 49],
     power_lottery |->
        [name |-> "power_lottery_name", numbers_count |-> 6, max_number |-> 38,
         has_special |-> TRUE, special_max |-> 8],
     daily_539 |->
        [name |-> "daily_539_name", numbers_count |-> 5, max_number |-> 39,
         has_special |-> FALSE],
     super_lotto |->
        [name |-> "super_lotto_name", numbers_count |-> 12, max_number |-> 24,
         has_special |-> FALSE]]

\* the values of enum LotteryType
LotteryType ==
    {"big_lottery", "power_lottery", "daily_539", "super_lotto", "lotto_649"}

\* d.get(key): None when the key is absent
DictGet(d, key) == IF key \in DOMAIN d THEN Some(d[key]) ELSE None

\* d.get(key, default)
DictGetDefault(d, key, default) == IF key \in DOMAIN d THEN d[key] ELSE default

-----------------------------------------------------------------------------
(* The generator `random` *)

\* one step of the generator's state
RngNext(r) == (r * 25173 + 13849) % 65536

\* the integer in 0..n-1 the generator yields from state r (n >= 1)
RandBelow(r, n) == (RngNext(r) \div 16) % n

\* random.randint(a, b) from state r
RandInt(r, a, b) == [value |-> a + RandBelow(r, b - a + 1), rng |-> RngNext(r)]

\* the selection loop of random.sample: k times, take pool[j] for a random
\* j among the n - i live positions and move the last live element into j
RECURSIVE SampleLoop(_, _, _, _)
SampleLoop(pool, live, k, r) ==
    IF k = 0 THEN [value |-> <<>>, rng |-> r]
    ELSE LET j    == RandBelow(r, live) + 1
             rest == SampleLoop([pool EXCEPT ![j] = pool[live]], live - 1,
                                k - 1, RngNext(r))
         IN [value |-> <<pool[j]>> \o rest.value, rng |-> rest.rng]

\* random.sample(population, k): ValueError when k exceeds the population;
\* otherwise k elements at pairwise distinct positions of the population
RandomSample(population, k, r) ==
    IF k < 0 \/ k > Len(population)
    THEN [raised |-> TRUE, value |-> <<>>, rng |-> r]
    ELSE LET s == SampleLoop(population, Len(population), k, r)
         IN [raised |-> FALSE, value |-> s.value, rng |-> s.rng]

-----------------------------------------------------------------------------
(* LotteryStatistics records and the sorts of the strategies *)

\* one row of lottery_statistics as the engine reads it
Stat(n, f, ci, ai_) ==
    [number |-> n, frequency |-> f, current_interval |-> ci,
     average_interval |-> ai_]

\* `not statistics`: None and the empty list are both falsy
Falsy(stats) == IsNone(stats) \/ Val(stats) = <<>>

\* truthiness of a nullable int: None and 0 are falsy
Truthy(o) == ~IsNone(o) /\ Val(o) # 0

\* the position each row takes when the rows are sorted by frequency: behind
\* the rows that sort before it and behind the earlier rows of the same
\* frequency (the sort is stable, also when reverse is set)
FrequencyRank(stats, reverse) ==
    [j \in 1..Len(stats) |->
        Cardinality({i \in 1..Len(stats) :
            \/ (reverse /\ stats[i].frequency > stats[j].frequency)
            \/ (~reverse /\ stats[i].frequency < stats[j].frequency)
            \/ (stats[i].frequency = stats[j].frequency /\ i < j)}) + 1]

\* the rows listed by rank
Permute(stats, rank) ==
    [r \in 1..Len(stats) |-> stats[CHOOSE j \in 1..Len(stats) : rank[j] = r]]

\* sorted(stats, key=lambda x: x.frequency, reverse=reverse)
SortedByFrequency(stats, reverse) ==
    TheOnly({Permute(stats, rank) : rank \in {FrequencyRank(stats, reverse)}})

\* [s.number for s in stats]
Numbers(stats) == [i \in 1..Len(stats) |-> stats[i].number]

\* list(range(1, n + 1))
RangeList(n) == [i \in 1..n |-> i]

-----------------------------------------------------------------------------
(* The strategies.  Each returns [raised, value, rng]: whether an exception *)
(* left it, the numbers selected and the generator's state afterwards.     *)

GenerateRandom(config, r) ==
    RandomSample(RangeList(config.max_number), config.numbers_count, r)

\* the if/else of _generate_hot on hot_numbers, without the fallback
HotSelectNoFallback(config, hot_numbers, r) ==
    RandomSample(hot_numbers, config.numbers_count, r)

\* the if/else of _generate_hot on hot_numbers, sampling only from a pool
\* larger than numbers_count
HotSelectStrict(config, hot_numbers, r) ==
    IF Len(hot_numbers) > config.numbers_count
    THEN RandomSample(hot_numbers, config.numbers_count, r)
    ELSE GenerateRandom(config, r)

\* the if/else of _generate_hot on hot_numbers
HotSelect(config, hot_numbers, r) ==
    IF Len(hot_numbers) >= config.numbers_count
    THEN RandomSample(hot_numbers, config.numbers_count, r)
    ELSE GenerateRandom(config, r)

\* _generate_hot with candidates taken from the top numbers_count * 3
GenerateHotWiderPool(config, stats, r) ==
    IF Falsy(stats) THEN GenerateRandom(config, r)
    ELSE HotSelect(config,
                   Numbers(Take(SortedByFrequency(Val(stats), TRUE),
                                config.numbers_count * 3)),
                   r)

GenerateHot(config, stats, r) ==
    IF Falsy(stats) THEN GenerateRandom(config, r)
    ELSE HotSelect(config,
                   Numbers(Take(SortedByFrequency(Val(stats), TRUE),
                                config.numbers_count * 2)),
                   r)

\* the if/else of _generate_cold on cold_numbers
ColdSelect(config, cold_numbers, r) ==
    IF Len(cold_numbers) >= config.numbers_count
    THEN RandomSample(cold_numbers, config.numbers_count, r)
    ELSE GenerateRandom(config, r)

\* _generate_cold ranking the statistics with reverse=True
GenerateColdFromHottest(config, stats, r) ==
    IF Falsy(stats) THEN GenerateRandom(config, r)
    ELSE ColdSelect(config,
                    Numbers(Take(SortedByFrequency(Val(stats), TRUE),
                                 config.numbers_count * 2)),
                    r)

GenerateCold(config, stats, r) ==
    IF Falsy(stats) THEN GenerateRandom(config, r)
    ELSE ColdSelect(config,
                    Numbers(Take(SortedByFrequency(Val(stats), FALSE),
                                 config.numbers_count * 2)),
                    r)

\* s.average_interval and s.current_interval > s.average_interval
IsOverdue(s) ==
    Truthy(s.average_interval) /\ s.current_interval > Val(s.average_interval)

\* [s.number for s in statistics if <overdue>]
OverdueNumbers(stats) == Numbers(SelectSeq(stats, IsOverdue))

\* random.sample(available, remaining) of the else branch, behind the
\* overdue numbers
OverdueFill(config, overdue_numbers, r) ==
    LET remaining   == config.numbers_count - Len(overdue_numbers)
        all_numbers == 1..config.max_number
        available   == SetToList(all_numbers \ Range(overdue_numbers))
        fill        == RandomSample(available, remaining, r)
    IN [raised |-> fill.raised,
        value  |-> overdue_numbers \o fill.value,
        rng    |-> fill.rng]

\* the if/else of _generate_overdue on the overdue numbers found
OverdueSelect(config, overdue_numbers, r) ==
    IF Len(overdue_numbers) >= config.numbers_count
    THEN RandomSample(overdue_numbers, config.numbers_count, r)
    ELSE OverdueFill(config, overdue_numbers, r)

GenerateOverdue(config, stats, r) ==
    IF Falsy(stats) THEN GenerateRandom(config, r)
    ELSE OverdueSelect(config, OverdueNumbers(Val(stats)), r)

\* random.sample(pool, min(count, len(pool)))
SampleUpTo(pool, count, r) == RandomSample(pool, Min(count, Len(pool)), r)

\* the hot share taken as half of numbers_count
HotCountHalf(config) == Max(1, config.numbers_count \div 2)

\* hot_count = max(1, numbers_count * 2 // 5)
HotCount(config) == Max(1, (config.numbers_count * 2) \div 5)

\* cold_count = max(1, numbers_count * 3 // 10)
ColdCount(config) == Max(1, (config.numbers_count * 3) \div 10)

\* the hot share: selected_hot sampled from the top hot_count * 2
SelectedHot(config, sorted_by_freq, r) ==
    SampleUpTo(Numbers(Take(sorted_by_freq, HotCount(config) * 2)),
               HotCount(config), r)

\* the cold share sampled without leaving out the hot numbers chosen
SelectedColdNoExclude(config, sorted_by_freq, selected_hot) ==
    SampleUpTo(Numbers(TakeLast(sorted_by_freq, ColdCount(config) * 2)),
               ColdCount(config), selected_hot.rng)

\* the cold share: selected_cold sampled from the last cold_count * 2 that
\* are not in selected_hot
SelectedCold(config, sorted_by_freq, selected_hot) ==
    SampleUpTo(FilterNotIn(
                   Numbers(TakeLast(sorted_by_freq, ColdCount(config) * 2)),
                   Range(selected_hot.value)),
               ColdCount(config), selected_hot.rng)

\* the random share drawn from the whole universe, the numbers already chosen
\* included
BalancedFillNoExclude(config, selected_hot, selected_cold) ==
    LET random_count    == config.numbers_count - Len(selected_hot.value)
                                                - Len(selected_cold.value)
        available       == SetToList(1..config.max_number)
        selected_random == RandomSample(available, random_count,
                                        selected_cold.rng)
    IN [raised |-> selected_hot.raised \/ selected_cold.raised
                       \/ selected_random.raised,
        value  |-> selected_hot.value \o selected_cold.value
                       \o selected_random.value,
        rng    |-> selected_random.rng]

\* the random share and the concatenation returned
BalancedFill(config, selected_hot, selected_cold) ==
    LET random_count    == config.numbers_count - Len(selected_hot.value)
                                                - Len(selected_cold.value)
        all_numbers     == 1..config.max_number
        used_numbers    == Range(selected_hot.value \o selected_cold.value)
        available       == SetToList(all_numbers \ used_numbers)
        selected_random == RandomSample(available, random_count,
                                        selected_cold.rng)
    IN [raised |-> selected_hot.raised \/ selected_cold.raised
                       \/ selected_random.raised,
        value  |-> selected_hot.value \o selected_cold.value
                       \o selected_random.value,
        rng    |-> selected_random.rng]

\* _generate_balanced from selected_hot on
BalancedAfterHot(config, sorted_by_freq, selected_hot) ==
    BalancedFill(config, selected_hot,
                 SelectedCold(config, sorted_by_freq, selected_hot))

\* _generate_balanced from sorted_by_freq on
BalancedFromSorted(config, sorted_by_freq, r) ==
    BalancedAfterHot(config, sorted_by_freq,
                     SelectedHot(config, sorted_by_freq, r))

GenerateBalanced(config, stats, r) ==
    IF Falsy(stats) THEN GenerateRandom(config, r)
    ELSE BalancedFromSorted(config, SortedByFrequency(Val(stats), TRUE), r)

\* the if/elif chain with an unrecognized strategy sent to the random rule
SelectNumbersStrict(config, strat, stats, r) ==
    IF strat = "random" THEN GenerateRandom(config, r)
    ELSE IF strat = "hot" THEN GenerateHot(config, stats, r)
    ELSE IF strat = "cold" THEN GenerateCold(config, stats, r)
    ELSE IF strat = "overdue" THEN GenerateOverdue(config, stats, r)
    ELSE IF strat = "balanced" THEN GenerateBalanced(config, stats, r)
    ELSE GenerateRandom(config, r)

\* the if/elif chain of generate_recommendation
SelectNumbers(config, strat, stats, r) ==
    IF strat = "random" THEN GenerateRandom(config, r)
    ELSE IF strat = "hot" THEN GenerateHot(config, stats, r)
    ELSE IF strat = "cold" THEN GenerateCold(config, stats, r)
    ELSE IF strat = "overdue" THEN GenerateOverdue(config, stats, r)
    ELSE GenerateBalanced(config, stats, r)

-----------------------------------------------------------------------------
(* Narrative, confidence score and statistics basis *)

\* strategy_names of _generate_default_analysis
strategy_names ==
    [balanced |-> "balanced_strategy_name", hot |-> "hot_strategy_name",
     cold |-> "cold_strategy_name", overdue |-> "overdue_strategy_name",
     random |-> "random_strategy_name"]

\* _generate_default_analysis: LOTTERY_CONFIG[lottery_type] is a KeyError for
\* a key without configuration; otherwise the three variable parts of the
\* f-string.  Returns [raised, value].
GenerateDefaultAnalysis(lt, numbers, strat) ==
    IF lt \notin DOMAIN LOTTERY_CONFIG
    THEN [raised |-> TRUE, value |-> [source |-> "KeyError"]]
    ELSE [raised |-> FALSE,
          value  |-> [source        |-> "template",
                      strategy_name |-> DictGetDefault(strategy_names, strat,
                                            "balanced_strategy_name"),
                      lottery_name  |-> LOTTERY_CONFIG[lt].name,
                      count         |-> Len(numbers)]]

\* _generate_ai_analysis that takes the client for configured whatever
\* self.client holds
GenerateAiAnalysisAlwaysCalls(cl, response, lt, numbers, strat) ==
    IF lt \notin DOMAIN LOTTERY_CONFIG \/ response.failed
    THEN GenerateDefaultAnalysis(lt, numbers, strat)
    ELSE [raised |-> FALSE,
          value  |-> [source |-> "ai", content |-> response.content]]

\* _generate_ai_analysis without the try/except around the call
GenerateAiAnalysisNoCatch(cl, response, lt, numbers, strat) ==
    IF ~cl THEN GenerateDefaultAnalysis(lt, numbers, strat)
    ELSE IF lt \notin DOMAIN LOTTERY_CONFIG \/ response.failed
         THEN [raised |-> TRUE, value |-> [source |-> "Exception"]]
         ELSE [raised |-> FALSE,
               value  |-> [source |-> "ai", content |-> response.content]]

\* _generate_ai_analysis; response is what chat.completions.create does when
\* it is called: it fails, or it answers with a content.  Without a client
\* the template is returned; with one, any exception inside the try block
\* (the config lookup, the call) is caught and the template returned.
\* Returns [raised, value].
GenerateAiAnalysis(cl, response, lt, numbers, strat) ==
    IF ~cl THEN GenerateDefaultAnalysis(lt, numbers, strat)
    ELSE IF lt \notin DOMAIN LOTTERY_CONFIG \/ response.failed
         THEN GenerateDefaultAnalysis(lt, numbers, strat)
         ELSE [raised |-> FALSE,
               value  |-> [source |-> "ai", content |-> response.content]]

\* stats_dict = {s.number: s for s in statistics}: its keys
StatsDictKeys(stats) == {stats[i].number : i \in 1..Len(stats)}

\* stats_dict[num]: a later row replaces an earlier one of the same number
StatsDictGet(stats, num) ==
    stats[CHOOSE i \in 1..Len(stats) :
             /\ stats[i].number = num
             /\ \A j \in (i + 1)..Len(stats) : stats[j].number # num]

\* round(num / den) to the nearest integer, ties to even (num >= 0, den > 0);
\* Python rounds the binary double, which agrees with this except possibly at
\* quotients ending in exactly 5 thousandths
RoundHalfEven(num, den) ==
    LET q == num \div den
        m == num % den
    IN IF 2 * m < den THEN q
       ELSE IF 2 * m > den THEN q + 1
       ELSE IF q % 2 = 0 THEN q ELSE q + 1

\* freq_score + interval_score of one number, in thousandths
NumberScore(stat) ==
    LET freq_score     == Min(stat.frequency, 100) * 5
        interval_score == IF /\ stat.current_interval # 0
                             /\ Truthy(stat.average_interval)
                             /\ stat.current_interval > Val(stat.average_interval)
                          THEN 500 ELSE 300
    IN freq_score + interval_score

\* total_score over numbers[i..]
RECURSIVE TotalScore(_, _, _)
TotalScore(numbers, stats, i) ==
    IF i > Len(numbers) THEN 0
    ELSE (IF numbers[i] \in StatsDictKeys(stats)
          THEN NumberScore(StatsDictGet(stats, numbers[i])) ELSE 0)
         + TotalScore(numbers, stats, i + 1)

\* _calculate_confidence without the fixed score for missing statistics
CalculateConfidenceNoDefault(numbers, stats) ==
    IF Falsy(stats) THEN 0
    ELSE RoundHalfEven(TotalScore(numbers, Val(stats), 1), 10 * Len(numbers))

\* _calculate_confidence, in hundredths
CalculateConfidence(numbers, stats) ==
    IF Falsy(stats) THEN 50
    ELSE RoundHalfEven(TotalScore(numbers, Val(stats), 1), 10 * Len(numbers))

\* the dictionary entry of one row
BasisEntry(stat) ==
    [frequency        |-> stat.frequency,
     current_interval |-> stat.current_interval,
     average_interval |-> stat.average_interval]

\* _get_statistics_basis that leaves out numbers of frequency 0
GetStatisticsBasisSkipsZero(numbers, stats) ==
    IF Falsy(stats) THEN <<>>
    ELSE [key \in {Str(n) : n \in {m \in Range(numbers) \cap StatsDictKeys(Val(stats)) :
                                      StatsDictGet(Val(stats), m).frequency # 0}} |->
             BasisEntry(StatsDictGet(Val(stats),
                 CHOOSE n \in Range(numbers) : Str(n) = key))]

\* _get_statistics_basis: a dictionary keyed by str(num)
GetStatisticsBasis(numbers, stats) ==
    IF Falsy(stats) THEN <<>>
    ELSE [key \in {Str(n) : n \in Range(numbers) \cap StatsDictKeys(Val(stats))} |->
             BasisEntry(StatsDictGet(Val(stats),
                 CHOOSE n \in Range(numbers) : Str(n) = key))]

-----------------------------------------------------------------------------
(* generate_recommendation *)

NoResult == [numbers |-> <<>>]
NoError == [type |-> "", message |-> ""]

Raise(type, message, r) ==
    [pc |-> "raised", error |-> [type |-> type, message |-> message],
     result |-> NoResult, rng |-> r]

\* the position each element takes when a list of ints is sorted
IntRank(numbers) ==
    [j \in 1..Len(numbers) |->
        Cardinality({i \in 1..Len(numbers) :
            \/ numbers[i] < numbers[j]
            \/ (numbers[i] = numbers[j] /\ i < j)}) + 1]

\* the numbers returned in the order the strategy produced them
SortedLeftOut(numbers) == numbers

\* sorted(numbers): equal elements are all kept
Sorted(numbers) ==
    TheOnly({[r \in 1..Len(numbers) |->
                 numbers[CHOOSE j \in 1..Len(numbers) : rank[j] = r]] :
             rank \in {IntRank(numbers)}})

\* config = LOTTERY_CONFIG.get(lottery_type), with a default configuration
LookupConfigDefaulting(lt) ==
    IF lt \in DOMAIN LOTTERY_CONFIG THEN Some(LOTTERY_CONFIG[lt])
    ELSE Some(LOTTERY_CONFIG["big_lottery"])

\* config = LOTTERY_CONFIG.get(lottery_type)
LookupConfig(lt) == DictGet(LOTTERY_CONFIG, lt)

\* the special number, drawn up to max_number whatever special_max says
GenerateSpecialIgnoringSpecialMax(cfg, r) ==
    IF DictGetDefault(cfg, "has_special", FALSE)
    THEN LET d == RandInt(r, 1, cfg.max_number)
         IN [value |-> Some(d.value), rng |-> d.rng]
    ELSE [value |-> None, rng |-> r]

\* special_number = None; if config.get("has_special"): special_number =
\* random.randint(1, config.get("special_max", config["max_number"]))
GenerateSpecial(cfg, r) ==
    IF DictGetDefault(cfg, "has_special", FALSE)
    THEN LET d == RandInt(r, 1, DictGetDefault(cfg, "special_max",
                                               cfg.max_number))
         IN [value |-> Some(d.value), rng |-> d.rng]
    ELSE [value |-> None, rng |-> r]

\* the return statement with a special number that equals a main number
\* withheld
BuildResultNoCollision(stats, numbers, special, analysis) ==
    IF analysis.raised
    THEN Raise(analysis.value.source, "narrative generation", special.rng)
    ELSE [pc     |-> "returned",
          error  |-> NoError,
          result |-> [numbers          |-> Sorted(numbers),
                      special_number   |->
                          IF special.value \subseteq Range(numbers)
                          THEN None ELSE special.value,
                      analysis         |-> analysis.value,
                      confidence_score |-> CalculateConfidence(numbers, stats),
                      statistics_basis |-> GetStatisticsBasis(numbers, stats)],
          rng    |-> special.rng]

\* the return statement, or the exception that left the narrative
BuildResult(stats, numbers, special, analysis) ==
    IF analysis.raised
    THEN Raise(analysis.value.source, "narrative generation", special.rng)
    ELSE [pc     |-> "returned",
          error  |-> NoError,
          result |-> [numbers          |-> Sorted(numbers),
                      special_number   |-> special.value,
                      analysis         |-> analysis.value,
                      confidence_score |-> CalculateConfidence(numbers, stats),
                      statistics_basis |-> GetStatisticsBasis(numbers, stats)],
          rng    |-> special.rng]

\* generate_recommendation from the selected numbers on
AfterSelection(cl, lt, strat, stats, response, cfg, sel) ==
    IF sel.raised
    THEN Raise("ValueError", "sample larger than population", sel.rng)
    ELSE BuildResult(stats, sel.value,
                     GenerateSpecial(cfg, sel.rng),
                     GenerateAiAnalysis(cl, response, lt, sel.value, strat))

\* generate_recommendation from the configuration found on
WithConfig(cl, lt, strat, stats, r, response, cfg) ==
    AfterSelection(cl, lt, strat, stats, response, cfg,
                   SelectNumbers(cfg, strat, stats, r))

\* One call of generate_recommendation on a recommender whose client is cl,
\* with the generator in state r: how it ends, and the generator's state.
GenerateRecommendation(cl, lt, strat, stats, r, response) ==
    IF IsNone(LookupConfig(lt))
    THEN Raise("ValueError", "unsupported lottery type", r)
    ELSE WithConfig(cl, lt, strat, stats, r, response, Val(LookupConfig(lt)))

-----------------------------------------------------------------------------
(* What a call leaves in the objects it was handed *)

\* statistics.sort(key=..., reverse=...) in the place of sorted(): the
\* argument itself is reordered
SortedInPlace(stats, reverse) ==
    [argument |-> SortedByFrequency(stats, reverse),
     returned |-> SortedByFrequency(stats, reverse)]

\* sorted(statistics, key=lambda x: x.frequency, reverse=...): a new list is
\* returned, the argument keeps its order and its records
SortedCopy(stats, reverse) ==
    [argument |-> stats,
     returned |-> SortedByFrequency(stats, reverse)]

\* The list object bound to `statistics` when generate_recommendation is
\* left.  An unconfigured type raises before the list is touched; random
\* never reads it; overdue, _calculate_confidence and _get_statistics_basis
\* iterate over it in comprehensions; hot, cold and balanced hand it to
\* sorted().  No statement assigns to a record's attribute.
StatisticsAfter(lt, strat, stats) ==
    IF IsNone(LookupConfig(lt)) \/ Falsy(stats) THEN stats
    ELSE IF strat \in {"random", "overdue"} THEN stats
    ELSE IF strat = "cold" THEN Some(SortedCopy(Val(stats), FALSE).argument)
    ELSE Some(SortedCopy(Val(stats), TRUE).argument)

-----------------------------------------------------------------------------
(* Inputs of the calls *)

ConfiguredTypes == DOMAIN LOTTERY_CONFIG

\* lottery-type keys a caller supplies: the enum's values and a free string
LotteryTypeKeys == LotteryType \cup {"not_a_game"}

NullStrategy == "<null>"

\* strategy arguments: the five names, an unrecognized string and null
Strategies ==
    {"random", "hot", "cold", "overdue", "balanced", "lucky", NullStrategy}

\* what the collaborator does when it is called
AiResponses ==
    {[failed |-> TRUE, content |-> ""],
     [failed |-> FALSE, content |-> "narrative"]}

Seeds == 0..MaxSeed

\* n rows of lottery_statistics of one lottery type: pairwise distinct numbers
\* in 1..max_number (the unique index on (lottery_type, number)), frequencies
\* 0..120 with ties, intervals >= 0, average_interval null, 0 or positive
MakeStatistics(max_number, n, p) ==
    [i \in 1..n |->
        Stat(((i * 5 + p) % max_number) + 1,
             ((i * 7 + p) % 13) * 10,
             (i * 3 + p) % 9,
             IF (i + p) % 4 = 0 THEN None ELSE Some((i * 5 + p) % 7))]

\* sizes of the statistics lists: empty, one row, fewer rows than a share's
\* pool, fewer than numbers_count, exactly numbers_count, the hot/cold pool
\* size, and one row per number
StatLens(cfg) ==
    {0, 1, 3, cfg.numbers_count - 1, cfg.numbers_count,
     Min(2 * cfg.numbers_count, cfg.max_number), cfg.max_number}

StatisticsInputs(lt) ==
    IF lt \in ConfiguredTypes
    THEN {None} \cup
         {Some(MakeStatistics(LOTTERY_CONFIG[lt].max_number, n, p)) :
              n \in StatLens(LOTTERY_CONFIG[lt]), p \in 1..MaxProfile}
    ELSE {None, Some(<<>>), Some(MakeStatistics(49, 3, 1))}

-----------------------------------------------------------------------------
(* The web layer: settings, tables and tokens *)

\* Settings.INITIAL_CREDITS and Settings.RECOMMENDATION_COST
INITIAL_CREDITS == 100
RECOMMENDATION_COST == 10

\* the rows of table users after three registrations, the third account
\* deactivated since; register stores credits = INITIAL_CREDITS
RegisteredUsers ==
    [id \in {1, 2, 3} |->
        [id |-> id, credits |-> INITIAL_CREDITS, is_active |-> id # 3]]

\* the rows of table credit_packages: an active package with a bonus and a
\* package taken off sale
CreditPackages ==
    <<[id |-> 1, credits |-> 50, bonus_credits |-> 5, is_active |-> 1],
      [id |-> 2, credits |-> 100, bonus_credits |-> 0, is_active |-> 0]>>

\* db.query(LotteryStatistics).filter(lottery_type == lt).all()
StatisticsRows(lt) ==
    IF lt \in ConfiguredTypes
    THEN MakeStatistics(LOTTERY_CONFIG[lt].max_number,
                        2 * LOTTERY_CONFIG[lt].numbers_count, 1)
    ELSE <<>>

\* the payload of a token that does not decode
NoPayload == [type |-> "", sub |-> 0]

\* create_access_token(data={"sub": user_id}) and
\* create_refresh_token(data={"sub": user_id}): signed with the server's key
CreateAccessToken(user_id) ==
    [signed |-> TRUE, type |-> "access", sub |-> user_id]
CreateRefreshToken(user_id) ==
    [signed |-> TRUE, type |-> "refresh", sub |-> user_id]

\* a string that is no token of this server
ForgedToken == [signed |-> FALSE, type |-> "access", sub |-> 1]

\* decode_token: the payload, or AuthenticationError(TOKEN_INVALID)
DecodeToken(token) ==
    IF token.signed
    THEN [raised |-> FALSE, payload |-> [type |-> token.type, sub |-> token.sub]]
    ELSE [raised |-> TRUE, payload |-> NoPayload]

\* the HTTP requests served, each once
Requests == {1, 2}

NoResponse == [status |-> 0, error_code |-> "", details |-> <<>>, data |-> <<>>]

\* a request slot before a request arrives
IdleRequest ==
    [pc |-> "idle", kind |-> "", token |-> ForgedToken,
     lottery_type |-> "", strategy |-> "", count |-> 0, id |-> 0,
     user |-> 0, credits |-> 0, engine |-> NoResult,
     transaction |-> 0, recommendation |-> 0, response |-> NoResponse]

-----------------------------------------------------------------------------
(* The state machine *)

NoPrev == [pc |-> "idle"]

\* the requests the server holds at once, each served once
Invocations == {1, 2}

\* a request slot before create_recommendation has built its recommender
IdleInvocation ==
    [pc |-> "idle", lottery_type |-> "", strategy |-> "", statistics |-> None,
     rng_in |-> 0, numbers |-> <<>>, special_number |-> None,
     ai |-> [failed |-> TRUE, content |-> ""], overlapped |-> FALSE,
     result |-> NoResult, error |-> NoError]

Init ==
    /\ client \in BOOLEAN
    /\ pc = "idle"
    /\ lottery_type = ""
    /\ strategy = ""
    /\ statistics = None
    /\ stats_after = None
    /\ lottery_config = LOTTERY_CONFIG
    /\ seed = 0
    /\ rng = 0
    /\ ai = [failed |-> TRUE, content |-> ""]
    /\ result = NoResult
    /\ error = NoError
    /\ prev = NoPrev
    /\ replayed = FALSE
    /\ inv = [i \in Invocations |-> IdleInvocation]
    /\ users = RegisteredUsers
    /\ credit_transactions = <<>>
    /\ recommendations = <<>>
    /\ req = [i \in Requests |-> IdleRequest]

\* random.seed(sd) followed by
\* await recommender.generate_recommendation(lt, strat, stats)
Call(lt, strat, stats, sd, response) ==
    /\ pc = "idle"
    /\ LET out == GenerateRecommendation(client, lt, strat, stats, sd, response)
       IN /\ pc' = out.pc
          /\ error' = out.error
          /\ result' = out.result
          /\ rng' = out.rng
    /\ lottery_type' = lt
    /\ strategy' = strat
    /\ statistics' = stats
    /\ stats_after' = StatisticsAfter(lt, strat, stats)
    /\ seed' = sd
    /\ ai' = response
    /\ UNCHANGED <<client, lottery_config, prev, replayed, inv>>
    /\ UNCHANGED webvars

\* the same call once more, on the same list object, after random.seed(seed),
\* the collaborator free to behave differently; the outcome of the first run
\* is kept in prev
Replay(response) ==
    /\ pc # "idle"
    /\ ~replayed
    /\ prev' = [pc |-> pc, error |-> error, result |-> result, rng |-> rng,
                ai |-> ai]
    /\ LET out == GenerateRecommendation(client, lottery_type, strategy,
                                         stats_after, seed, response)
       IN /\ pc' = out.pc
          /\ error' = out.error
          /\ result' = out.result
          /\ rng' = out.rng
    /\ ai' = response
    /\ replayed' = TRUE
    /\ stats_after' = StatisticsAfter(lottery_type, strategy, stats_after)
    /\ UNCHANGED <<client, lottery_type, strategy, statistics,
                   lottery_config, seed, inv>>
    /\ UNCHANGED webvars

\* the caller is done with the outcome
Finish ==
    /\ pc # "idle"
    /\ pc' = "idle"
    /\ lottery_type' = ""
    /\ strategy' = ""
    /\ statistics' = None
    /\ stats_after' = None
    /\ seed' = 0
    /\ rng' = 0
    /\ ai' = [failed |-> TRUE, content |-> ""]
    /\ result' = NoResult
    /\ error' = NoError
    /\ prev' = NoPrev
    /\ replayed' = FALSE
    /\ UNCHANGED <<client, lottery_config, inv>>
    /\ UNCHANGED webvars

Next ==
    \/ \E lt \in LotteryTypeKeys, strat \in Strategies, sd \in Seeds,
          response \in AiResponses :
          \E stats \in StatisticsInputs(lt) :
              Call(lt, strat, stats, sd, response)
    \/ \E response \in AiResponses : Replay(response)
    \/ Finish

Spec == Init /\ [][Next]_vars

-----------------------------------------------------------------------------
(* Requests in flight at once: each builds its own AIRecommender and awaits *)
(* generate_recommendation; the generator `random` is the process's.       *)

\* lottery types, strategies and statistics of the overlapping requests
ConcTypeKeys == {"big_lottery", "daily_539", "lotto_649"}
ConcStrategies == {"hot", "overdue", "balanced"}
ConcStatistics(lt) ==
    IF lt \in ConfiguredTypes
    THEN {Some(MakeStatistics(LOTTERY_CONFIG[lt].max_number,
                              2 * LOTTERY_CONFIG[lt].numbers_count, 1))}
    ELSE {None}

\* what a coroutine holds when it reaches the await
Suspended(sel, special) ==
    [pc |-> "awaiting", error |-> NoError, numbers |-> sel.value,
     special_number |-> special.value, rng |-> special.rng]

\* a coroutine left by an exception before the await
Failed(type, message, r) ==
    [pc |-> "raised", error |-> [type |-> type, message |-> message],
     numbers |-> <<>>, special_number |-> None, rng |-> r]

\* generate_recommendation from the selected numbers up to the await
BeginSelected(cfg, sel) ==
    IF sel.raised
    THEN Failed("ValueError", "sample larger than population", sel.rng)
    ELSE Suspended(sel, GenerateSpecial(cfg, sel.rng))

\* generate_recommendation up to the await: the configuration lookup, the
\* strategy and the special number, all drawing from the generator in state r
BeginOutcome(lt, strat, stats, r) ==
    IF IsNone(LookupConfig(lt))
    THEN Failed("ValueError", "unsupported lottery type", r)
    ELSE BeginSelected(Val(LookupConfig(lt)),
                       SelectNumbers(Val(LookupConfig(lt)), strat, stats, r))

\* the locals kept in one frame shared by the requests
FrameShared(i) == inv[1]

\* the locals generate_recommendation resumes with: those of its own frame
Frame(i) == inv[i]

\* generate_recommendation from the await on: the narrative, the confidence
\* score, the basis and the return statement
ResumeOutcome(cl, frame, response) ==
    BuildResult(frame.statistics, frame.numbers,
                [value |-> frame.special_number, rng |-> 0],
                GenerateAiAnalysis(cl, response, frame.lottery_type,
                                   frame.numbers, frame.strategy))

ConcInit ==
    /\ client \in BOOLEAN
    /\ pc = "idle"
    /\ lottery_type = ""
    /\ strategy = ""
    /\ statistics = None
    /\ stats_after = None
    /\ lottery_config = LOTTERY_CONFIG
    /\ seed = 0
    /\ rng \in Seeds
    /\ ai = [failed |-> TRUE, content |-> ""]
    /\ result = NoResult
    /\ error = NoError
    /\ prev = NoPrev
    /\ replayed = FALSE
    /\ inv = [i \in Invocations |-> IdleInvocation]
    /\ users = RegisteredUsers
    /\ credit_transactions = <<>>
    /\ recommendations = <<>>
    /\ req = [i \in Requests |-> IdleRequest]

\* the variables of a single call observed on its own
seqvars == <<client, pc, lottery_type, strategy, statistics, stats_after,
             lottery_config, seed, ai, result, error, prev, replayed>>

\* request i runs generate_recommendation up to the await
BeginRequest(i, lt, strat, stats) ==
    /\ inv[i].pc = "idle"
    /\ \E out \in {BeginOutcome(lt, strat, stats, rng)} :
           /\ inv' = [inv EXCEPT ![i] =
                         [IdleInvocation EXCEPT
                             !.pc = out.pc, !.error = out.error,
                             !.lottery_type = lt, !.strategy = strat,
                             !.statistics = stats, !.rng_in = rng,
                             !.numbers = out.numbers,
                             !.special_number = out.special_number]]
           /\ rng' = out.rng
    /\ UNCHANGED seqvars
    /\ UNCHANGED webvars

\* the narrative call of request i is over and generate_recommendation runs
\* to its return statement
ResumeRequest(i, response) ==
    /\ inv[i].pc = "awaiting"
    /\ \E out \in {ResumeOutcome(client, Frame(i), response)} :
           inv' = [inv EXCEPT ![i] =
                      [@ EXCEPT !.pc = out.pc, !.error = out.error,
                                !.result = out.result, !.ai = response,
                                !.overlapped =
                                    \E j \in Invocations \ {i} :
                                        inv[j].pc = "awaiting"]]
    /\ UNCHANGED rng
    /\ UNCHANGED seqvars
    /\ UNCHANGED webvars

\* create_recommendation is done with the outcome of request i, and the
\* request is over
DeliverRequest(i) ==
    /\ inv[i].pc \in {"returned", "raised"}
    /\ inv' = [inv EXCEPT ![i] = [IdleInvocation EXCEPT !.pc = "done"]]
    /\ UNCHANGED rng
    /\ UNCHANGED seqvars
    /\ UNCHANGED webvars

ConcNext ==
    \E i \in Invocations :
        \/ \E lt \in ConcTypeKeys, strat \in ConcStrategies :
               \E stats \in ConcStatistics(lt) :
                   BeginRequest(i, lt, strat, stats)
        \/ \E response \in AiResponses : ResumeRequest(i, response)
        \/ DeliverRequest(i)

ConcSpec == ConcInit /\ [][ConcNext]_vars

-----------------------------------------------------------------------------
(* The web layer: authentication and the handlers' computations *)

\* an AppException as the exception handler renders it
ErrorResponse(status, error_code, details) ==
    [status |-> status, error_code |-> error_code, details |-> details,
     data |-> <<>>]

Ok(data) ==
    [status |-> 200, error_code |-> "", details |-> <<>>, data |-> data]

\* get_current_user on the rows of table users: the token is decoded, the
\* user of its "sub" is looked up and must be active
GetCurrentUser(token, rows) ==
    IF DecodeToken(token).raised
    THEN [raised |-> TRUE, error_code |-> "TOKEN_INVALID", user |-> 0]
    ELSE IF DecodeToken(token).payload.sub \notin DOMAIN rows
    THEN [raised |-> TRUE, error_code |-> "USER_NOT_FOUND", user |-> 0]
    ELSE IF ~rows[DecodeToken(token).payload.sub].is_active
    THEN [raised |-> TRUE, error_code |-> "USER_INACTIVE", user |-> 0]
    ELSE [raised |-> FALSE, error_code |-> "",
          user |-> DecodeToken(token).payload.sub]

\* refresh_token: every exception inside the try block, the
\* AuthenticationErrors raised there included, leaves as TOKEN_INVALID
RefreshToken(token, rows) ==
    IF \/ DecodeToken(token).raised
       \/ DecodeToken(token).payload.type # "refresh"
       \/ DecodeToken(token).payload.sub \notin DOMAIN rows
    THEN ErrorResponse(401, "TOKEN_INVALID", <<>>)
    ELSE IF ~rows[DecodeToken(token).payload.sub].is_active
    THEN ErrorResponse(401, "TOKEN_INVALID", <<>>)
    ELSE Ok([access_token  |->
                 CreateAccessToken(DecodeToken(token).payload.sub),
             refresh_token |->
                 CreateRefreshToken(DecodeToken(token).payload.sub)])

\* credits_needed = settings.RECOMMENDATION_COST * request.count
CreditsNeeded(count) == RECOMMENDATION_COST * count

\* balance_before is read once the debit has been made
RecommendationTransactionAfterDebit(id, r) ==
    [id |-> id, user_id |-> r.user, transaction_type |-> "recommendation",
     amount |-> 0 - CreditsNeeded(r.count),
     balance_before |-> r.credits - CreditsNeeded(r.count),
     balance_after |-> r.credits - CreditsNeeded(r.count),
     reference_id |-> None, reference_type |-> "recommendation"]

\* the row create_recommendation adds to credit_transactions
RecommendationTransaction(id, r) ==
    [id |-> id, user_id |-> r.user, transaction_type |-> "recommendation",
     amount |-> 0 - CreditsNeeded(r.count),
     balance_before |-> r.credits,
     balance_after |-> r.credits - CreditsNeeded(r.count),
     reference_id |-> None, reference_type |-> "recommendation"]

\* the row create_recommendation adds to recommendations
RecommendationRow(id, r) ==
    [id |-> id, user_id |-> r.user, lottery_type |-> r.lottery_type,
     recommended_numbers |-> r.engine.numbers,
     special_number |-> r.engine.special_number,
     analysis |-> r.engine.analysis,
     confidence_score |-> r.engine.confidence_score,
     strategy |-> r.strategy, credits_used |-> CreditsNeeded(r.count),
     statistics_basis |-> r.engine.statistics_basis]

\* db.query(CreditPackage).filter(id == package_id, is_active == 1).first()
FindPackage(package_id) ==
    {CreditPackages[k] : k \in {j \in 1..Len(CreditPackages) :
        /\ CreditPackages[j].id = package_id
        /\ CreditPackages[j].is_active = 1}}

\* total_credits = package.credits + package.bonus_credits
TotalCredits(package) == package.credits + package.bonus_credits

\* the row purchase_credits adds to credit_transactions
PurchaseTransaction(id, r, package) ==
    [id |-> id, user_id |-> r.user, transaction_type |-> "purchase",
     amount |-> TotalCredits(package),
     balance_before |-> r.credits,
     balance_after |-> r.credits + TotalCredits(package),
     reference_id |-> Some(package.id), reference_type |-> "credit_package"]

\* the row is looked up by its id alone
FindRecommendationOfAnyUser(rows, recommendation_id, user_id) ==
    {rows[k] : k \in {j \in 1..Len(rows) : rows[j].id = recommendation_id}}

\* db.query(Recommendation).filter(id == recommendation_id,
\* user_id == current_user.id).first()
FindRecommendation(rows, recommendation_id, user_id) ==
    {rows[k] : k \in {j \in 1..Len(rows) :
        rows[j].id = recommendation_id /\ rows[j].user_id = user_id}}

\* the recommendations of one user, of one lottery type when a filter is
\* given, newest first (page 1 of a page that holds them all)
ListRecommendations(rows, lt, user_id) ==
    LET mine == SelectSeq(rows, LAMBDA row :
                    /\ row.user_id = user_id
                    /\ lt # "" => row.lottery_type = lt)
    IN [k \in 1..Len(mine) |-> mine[Len(mine) + 1 - k]]

-----------------------------------------------------------------------------
(* The web layer: requests, each served on a database session of its own *)

\* tokens a client can send: those issued to the three registered users and
\* to a user since deleted, and a string the server never signed
TokenSubjects == {1, 2, 3, 9}
Tokens ==
    {CreateAccessToken(u) : u \in TokenSubjects}
        \cup {CreateRefreshToken(u) : u \in TokenSubjects}
        \cup {ForgedToken}

RequestInput(kind, token, lt, strat, count, id) ==
    [kind |-> kind, token |-> token, lottery_type |-> lt, strategy |-> strat,
     count |-> count, id |-> id]

\* the requests clients send
RequestInputs ==
    {RequestInput("create_recommendation", CreateAccessToken(u), lt,
                  "balanced", c, 0) :
         u \in {1, 2}, lt \in {"big_lottery", "lotto_649"}, c \in {1, 10}}
    \cup {RequestInput("purchase_credits", CreateAccessToken(u), "", "", 0, id) :
             u \in {1, 2}, id \in {1, 2, 3}}
    \cup {RequestInput("get_recommendation", CreateAccessToken(u), "", "", 0, id) :
             u \in {1, 2}, id \in {1, 2}}
    \cup {RequestInput("get_recommendations", t, lt, "", 0, 0) :
             t \in Tokens, lt \in {"", "big_lottery"}}
    \cup {RequestInput("refresh", t, "", "", 0, 0) : t \in Tokens}

WebInit ==
    /\ client \in BOOLEAN
    /\ pc = "idle"
    /\ lottery_type = ""
    /\ strategy = ""
    /\ statistics = None
    /\ stats_after = None
    /\ lottery_config = LOTTERY_CONFIG
    /\ seed = 0
    /\ rng = 0
    /\ ai = [failed |-> TRUE, content |-> ""]
    /\ result = NoResult
    /\ error = NoError
    /\ prev = NoPrev
    /\ replayed = FALSE
    /\ inv = [i \in Invocations |-> IdleInvocation]
    /\ users = RegisteredUsers
    /\ credit_transactions = <<>>
    /\ recommendations = <<>>
    /\ req = [i \in Requests |-> IdleRequest]

\* what the web layer leaves alone
enginevars == <<seqvars, inv>>

\* request i ends with the response given
Respond(i, response) ==
    req' = [req EXCEPT ![i] = [@ EXCEPT !.pc = "responded",
                                        !.response = response]]

\* a request for a handler that depends on get_current_user arrives: the
\* session is opened and the user of the token is loaded into it
ReceiveRequest(i, r) ==
    /\ req[i].pc = "idle"
    /\ r.kind # "refresh"
    /\ \E auth \in {GetCurrentUser(r.token, users)} :
           req' = [req EXCEPT ![i] =
               [IdleRequest EXCEPT
                   !.kind = r.kind, !.token = r.token,
                   !.lottery_type = r.lottery_type, !.strategy = r.strategy,
                   !.count = r.count, !.id = r.id,
                   !.pc = IF auth.raised THEN "responded" ELSE "authenticated",
                   !.response = IF auth.raised
                                THEN ErrorResponse(401, auth.error_code, <<>>)
                                ELSE NoResponse,
                   !.user = auth.user,
                   !.credits = IF auth.raised THEN 0
                               ELSE users[auth.user].credits]]
    /\ UNCHANGED <<users, credit_transactions, recommendations, rng>>
    /\ UNCHANGED enginevars

\* POST /auth/refresh
ReceiveRefresh(i, r) ==
    /\ req[i].pc = "idle"
    /\ r.kind = "refresh"
    /\ req' = [req EXCEPT ![i] =
           [IdleRequest EXCEPT
               !.kind = r.kind, !.token = r.token, !.pc = "responded",
               !.response = RefreshToken(r.token, users)]]
    /\ UNCHANGED <<users, credit_transactions, recommendations, rng>>
    /\ UNCHANGED enginevars

\* the balance is compared with the cost of one recommendation
InsufficientForOne(r) == r.credits < RECOMMENDATION_COST

\* if current_user.credits < credits_needed
InsufficientCredits(r) == r.credits < CreditsNeeded(r.count)

\* create_recommendation, the credit check
CheckCredits(i) ==
    /\ req[i].pc = "authenticated"
    /\ req[i].kind = "create_recommendation"
    /\ IF InsufficientCredits(req[i])
       THEN Respond(i, ErrorResponse(402, "INSUFFICIENT_CREDITS",
                           [required  |-> CreditsNeeded(req[i].count),
                            available |-> req[i].credits]))
       ELSE req' = [req EXCEPT ![i].pc = "checked"]
    /\ UNCHANGED <<users, credit_transactions, recommendations, rng>>
    /\ UNCHANGED enginevars

\* an exception of the engine is taken for a result and the handler goes on
AfterEngineSwallowed(r, out) ==
    [r EXCEPT !.pc = "generated", !.engine = out.result]

\* the request once the engine has been awaited: an exception of the engine
\* leaves the handler for general_exception_handler before anything is billed
AfterEngine(r, out) ==
    IF out.pc = "raised"
    THEN [r EXCEPT !.pc = "responded",
                   !.response = ErrorResponse(500, "INTERNAL_ERROR", <<>>)]
    ELSE [r EXCEPT !.pc = "generated", !.engine = out.result]

\* create_recommendation, the statistics query and the call of the engine
GenerateNumbers(i, response) ==
    /\ req[i].pc = "checked"
    /\ \E out \in {GenerateRecommendation(client, req[i].lottery_type,
                         req[i].strategy,
                         Some(StatisticsRows(req[i].lottery_type)),
                         rng, response)} :
           /\ rng' = out.rng
           /\ req' = [req EXCEPT ![i] = AfterEngine(req[i], out)]
    /\ UNCHANGED <<users, credit_transactions, recommendations>>
    /\ UNCHANGED enginevars

\* the cost is taken off the value the row holds when the commit arrives
DebitedCreditsInPlace(stored, r) == stored - CreditsNeeded(r.count)

\* current_user.credits -= credits_needed, on the object the session loaded
\* when the request was authenticated; the commit writes this value
DebitedCredits(stored, r) == r.credits - CreditsNeeded(r.count)

\* create_recommendation, the debit, the two rows added and the first commit
DebitAndCommit(i) ==
    /\ req[i].pc = "generated"
    /\ users' = [users EXCEPT ![req[i].user].credits =
                     DebitedCredits(@, req[i])]
    /\ credit_transactions' =
           Append(credit_transactions,
                  RecommendationTransaction(Len(credit_transactions) + 1,
                                            req[i]))
    /\ recommendations' =
           Append(recommendations,
                  RecommendationRow(Len(recommendations) + 1, req[i]))
    /\ req' = [req EXCEPT ![i] =
           [@ EXCEPT !.pc = "committed",
                     !.credits = @ - CreditsNeeded(req[i].count),
                     !.transaction = Len(credit_transactions) + 1,
                     !.recommendation = Len(recommendations) + 1]]
    /\ UNCHANGED rng
    /\ UNCHANGED enginevars

\* create_recommendation, transaction.reference_id = recommendation.id, the
\* second commit and the response
LinkAndRespond(i) ==
    /\ req[i].pc = "committed"
    /\ credit_transactions' =
           [credit_transactions EXCEPT ![req[i].transaction].reference_id =
               Some(req[i].recommendation)]
    /\ Respond(i, Ok(recommendations[req[i].recommendation]))
    /\ UNCHANGED <<users, recommendations, rng>>
    /\ UNCHANGED enginevars

\* purchase_credits
PurchaseCredits(i) ==
    /\ req[i].pc = "authenticated"
    /\ req[i].kind = "purchase_credits"
    /\ IF FindPackage(req[i].id) = {}
       THEN /\ Respond(i, ErrorResponse(404, "PACKAGE_NOT_FOUND", <<>>))
            /\ UNCHANGED <<users, credit_transactions>>
       ELSE \E package \in FindPackage(req[i].id) :
            /\ users' = [users EXCEPT ![req[i].user].credits =
                             req[i].credits + TotalCredits(package)]
            /\ credit_transactions' =
                   Append(credit_transactions,
                          PurchaseTransaction(Len(credit_transactions) + 1,
                                              req[i], package))
            /\ req' = [req EXCEPT ![i] =
                   [@ EXCEPT !.pc = "responded",
                             !.credits = @ + TotalCredits(package),
                             !.transaction = Len(credit_transactions) + 1,
                             !.response =
                                 Ok([credits_added |-> TotalCredits(package),
                                     new_balance   |->
                                         req[i].credits
                                             + TotalCredits(package)])]]
    /\ UNCHANGED <<recommendations, rng>>
    /\ UNCHANGED enginevars

\* get_recommendation
GetRecommendation(i) ==
    /\ req[i].pc = "authenticated"
    /\ req[i].kind = "get_recommendation"
    /\ \E found \in {FindRecommendation(recommendations, req[i].id,
                                          req[i].user)} :
           Respond(i, IF found = {}
                      THEN ErrorResponse(404, "NOT_FOUND", <<>>)
                      ELSE Ok(Val(found)))
    /\ UNCHANGED <<users, credit_transactions, recommendations, rng>>
    /\ UNCHANGED enginevars

\* get_recommendations
GetRecommendations(i) ==
    /\ req[i].pc = "authenticated"
    /\ req[i].kind = "get_recommendations"
    /\ Respond(i, Ok(ListRecommendations(recommendations,
                                         req[i].lottery_type, req[i].user)))
    /\ UNCHANGED <<users, credit_transactions, recommendations, rng>>
    /\ UNCHANGED enginevars

\* one step of request i
Serve(i) ==
    \/ \E r \in RequestInputs : ReceiveRequest(i, r)
    \/ \E r \in RequestInputs : ReceiveRefresh(i, r)
    \/ CheckCredits(i)
    \/ \E response \in AiResponses : GenerateNumbers(i, response)
    \/ DebitAndCommit(i)
    \/ LinkAndRespond(i)
    \/ PurchaseCredits(i)
    \/ GetRecommendation(i)
    \/ GetRecommendations(i)

\* requests served by several workers: their steps interleave
WebNext == \E i \in Requests : Serve(i)

WebSpec == WebInit /\ [][WebNext]_vars

\* no other request is being served
Alone2(i) == \A j \in Requests \ {i} : req[j].pc \in {"idle", "responded"}

\* requests served one after the other: a request is received and takes its
\* steps only while no other one is being served
SeqWebNext == \E i \in Requests : Alone2(i) /\ Serve(i)

SeqWebSpec == WebInit /\ [][SeqWebNext]_vars

-----------------------------------------------------------------------------
(* State shorthands used by the properties *)

Returned == pc = "returned"
Configured == lottery_type \in ConfiguredTypes
Cfg == LOTTERY_CONFIG[lottery_type]

\* the rows supplied, the empty list standing for None as well
Rows == IF IsNone(statistics) THEN <<>> ELSE Val(statistics)
RowNumbers == {Rows[i].number : i \in 1..Len(Rows)}

TypeOK ==
    /\ client \in BOOLEAN
    /\ pc \in {"idle", "returned", "raised"}
    /\ rng \in 0..65535
    /\ replayed \in BOOLEAN

-----------------------------------------------------------------------------
(* C1..C10 *)

\* C1: for every configured lottery type, every strategy and every statistics
\* list of pairwise-distinct numbers in 1..max_number, the numbers returned
\* are exactly numbers_count many, pairwise distinct and within 1..max_number.
C1_NumbersWellFormed ==
    Returned =>
        /\ Len(result.numbers) = Cfg.numbers_count
        /\ Cardinality(Range(result.numbers)) = Cfg.numbers_count
        /\ Range(result.numbers) \subseteq 1..Cfg.max_number

\* the balanced rule has run on statistics too few to fill its shares
C1_Witness ==
    /\ Returned
    /\ strategy = "balanced"
    /\ Len(Rows) = 3
    /\ Len(result.numbers) = Cfg.numbers_count

\* C2: for every configured lottery type and every strategy the call never
\* raises and never returns fewer than numbers_count numbers, whatever the
\* size of the statistics list.
C2_NeverRaisesNeverShort ==
    (pc # "idle" /\ Configured) =>
        /\ Returned
        /\ error = NoError
        /\ Len(result.numbers) >= Cfg.numbers_count

\* the hot rule has met a pool smaller than numbers_count and has returned
C2_Witness ==
    /\ Returned
    /\ strategy = "hot"
    /\ Len(Rows) > 0
    /\ Len(Rows) < Cfg.numbers_count
    /\ Len(result.numbers) = Cfg.numbers_count

\* C3: with has_special the special number is an integer in 1..special_max
\* (max_number when the configuration has no special_max); without
\* has_special it is null.
C3_SpecialNumberRange ==
    Returned =>
        IF Cfg.has_special
        THEN /\ ~IsNone(result.special_number)
             /\ Val(result.special_number) \in
                    1..(IF "special_max" \in DOMAIN Cfg THEN Cfg.special_max
                        ELSE Cfg.max_number)
        ELSE IsNone(result.special_number)

\* power_lottery (special_max 8 below max_number 38) has drawn a special number
C3_Witness ==
    /\ Returned
    /\ lottery_type = "power_lottery"
    /\ ~IsNone(result.special_number)

\* C4: confidence_score lies in [0, 1], and is exactly 0.5 when the
\* statistics are empty or absent, whatever the strategy and lottery type.
C4_ConfidenceRange ==
    Returned =>
        /\ result.confidence_score \in 0..100
        /\ Falsy(statistics) => result.confidence_score = 50

\* a call without statistics has returned under a strategy that reads them
C4_Witness ==
    /\ Returned
    /\ Falsy(statistics)
    /\ strategy = "overdue"
    /\ result.confidence_score = 50

\* C5: a lottery-type key without configuration fails with the
\* unsupported-lottery-type ValueError before any number is drawn, and the
\* error reaches the caller instead of a result.
C5_UnknownTypeRaises ==
    (pc # "idle" /\ ~Configured) =>
        /\ pc = "raised"
        /\ error = [type |-> "ValueError", message |-> "unsupported lottery type"]
        /\ result = NoResult
        /\ rng = seed

\* the enum value without configuration has been requested
C5_Witness ==
    /\ pc = "raised"
    /\ lottery_type = "lotto_649"
    /\ ~Falsy(statistics)

\* C6: a strategy outside {random, hot, cold, overdue} is handled exactly as
\* "balanced": no error, the numbers of the balanced rule, and a template
\* narrative that names the balanced strategy.
C6_UnrecognizedIsBalanced ==
    (pc # "idle" /\ Configured
        /\ strategy \notin {"random", "hot", "cold", "overdue"}) =>
        /\ Returned
        /\ LET b == GenerateBalanced(Cfg, statistics, seed)
           IN /\ ~b.raised
              /\ result.numbers = Sorted(b.value)
        /\ result.analysis.source = "template" =>
               result.analysis.strategy_name = strategy_names["balanced"]

\* an unrecognized string has been served from statistics with the template
C6_Witness ==
    /\ Returned
    /\ strategy = "lucky"
    /\ Len(Rows) > Cfg.numbers_count
    /\ result.analysis.source = "template"

\* the outcome without its narrative
Rest(res) ==
    [numbers          |-> res.numbers,
     special_number   |-> res.special_number,
     confidence_score |-> res.confidence_score,
     statistics_basis |-> res.statistics_basis]

\* C7: with no client, or with a failing AI call, nothing propagates: the
\* analysis is the template made of the lottery type's name, the strategy
\* name and the count of numbers, and the rest of the result is what a run
\* with a succeeding call produces.
C7_NarrativeFailureContained ==
    (pc # "idle" /\ Configured /\ (~client \/ ai.failed)) =>
        /\ Returned
        /\ result.analysis =
               [source        |-> "template",
                strategy_name |-> IF strategy \in DOMAIN strategy_names
                                  THEN strategy_names[strategy]
                                  ELSE strategy_names["balanced"],
                lottery_name  |-> Cfg.name,
                count         |-> Cfg.numbers_count]
        /\ replayed =>
               /\ prev.pc = "returned"
               /\ Rest(prev.result) = Rest(result)

\* the AI call succeeded in the first run and failed in the replay
C7_Witness ==
    /\ Returned
    /\ client
    /\ replayed
    /\ ai.failed
    /\ ~prev.ai.failed
    /\ prev.result.analysis.source = "ai"
    /\ result.analysis.source = "template"

TopRanked == SortedByFrequency(Rows, TRUE)[1].number

\* the candidates of the hot rule
HotPool == Range(Numbers(Take(SortedByFrequency(Rows, TRUE),
                              Cfg.numbers_count * 2)))

\* C9 as stated: under the hot strategy the number ranking first by frequency
\* is among the returned numbers whenever the candidate pool has at least
\* numbers_count entries.
C9_TopRankedAlwaysReturned ==
    (Returned /\ strategy = "hot" /\ Len(Rows) >= Cfg.numbers_count) =>
        TopRanked \in Range(result.numbers)

\* C9 amended: under the hot strategy with a candidate pool of at least
\* numbers_count entries, the number ranking first is a candidate and every
\* returned number is a candidate; it is among the returned numbers whenever
\* the pool has exactly numbers_count entries.
C9_TopRankedIsCandidate ==
    (Returned /\ strategy = "hot" /\ Len(Rows) >= Cfg.numbers_count) =>
        /\ TopRanked \in HotPool
        /\ Range(result.numbers) \subseteq HotPool
        /\ Cardinality(HotPool) = Cfg.numbers_count =>
               TopRanked \in Range(result.numbers)

\* the hot rule has sampled a pool of exactly numbers_count candidates
C9_Witness ==
    /\ Returned
    /\ strategy = "hot"
    /\ Len(Rows) = Cfg.numbers_count
    /\ TopRanked \in Range(result.numbers)

\* C10: the keys of statistics_basis are exactly the selected numbers that
\* occur in the statistics, each with that row's frequency, current_interval
\* and average_interval; the mapping is empty without statistics.
C10_StatisticsBasis ==
    Returned =>
        /\ DOMAIN result.statistics_basis =
               {Str(n) : n \in Range(result.numbers) \cap RowNumbers}
        /\ \A i \in 1..Len(Rows) :
               Rows[i].number \in Range(result.numbers) =>
                   result.statistics_basis[Str(Rows[i].number)] =
                       [frequency        |-> Rows[i].frequency,
                        current_interval |-> Rows[i].current_interval,
                        average_interval |-> Rows[i].average_interval]
        /\ Falsy(statistics) => result.statistics_basis = <<>>

\* the overdue rule has kept overdue numbers and filled up with numbers the
\* statistics do not hold
C10_Witness ==
    /\ Returned
    /\ strategy = "overdue"
    /\ \E i \in 1..Len(Rows) :
           IsOverdue(Rows[i]) /\ Rows[i].number \in Range(result.numbers)
    /\ \E n \in Range(result.numbers) : n \notin RowNumbers
    /\ result.statistics_basis # <<>>

-----------------------------------------------------------------------------
(* C11..C20 *)

\* the list the strategy produced, before the return statement sorts it
Selected == SelectNumbers(Cfg, strategy, statistics, seed).value

\* C11: the numbers returned are in strictly ascending order for every
\* strategy, the concatenating paths (overdue fill, balanced) included.
C11_StrictlyAscending ==
    Returned =>
        \A i \in 1..(Len(result.numbers) - 1) :
            result.numbers[i] < result.numbers[i + 1]

\* a concatenating path has produced a list that was not ascending, and the
\* call has returned it
C11_Witness ==
    /\ Returned
    /\ strategy \in {"overdue", "balanced"}
    /\ Len(Rows) > 0
    /\ \E i \in 1..(Len(Selected) - 1) : Selected[i] > Selected[i + 1]
    /\ Range(result.numbers) = Range(Selected)

\* C12: a call leaves its inputs as they were: the statistics list (order
\* and every record's fields) and the table LOTTERY_CONFIG are after the
\* call what they were before it, under every strategy.
C12_InputsUnchanged ==
    /\ lottery_config = LOTTERY_CONFIG
    /\ pc # "idle" => stats_after = statistics

\* hot, cold or balanced has ranked a list that was not in frequency order
\* and has been replayed on the list it left
C12_Witness ==
    /\ Returned
    /\ replayed
    /\ strategy \in {"hot", "cold", "balanced"}
    /\ Len(Rows) > 1
    /\ SortedByFrequency(Rows, strategy # "cold") # Rows
    /\ stats_after = statistics

\* request i run on its own from the generator state it met
Alone(i) ==
    GenerateRecommendation(client, inv[i].lottery_type, inv[i].strategy,
                           inv[i].statistics, inv[i].rng_in, inv[i].ai)

\* the postconditions of a single call, on the result of request i
Postconditions(i) ==
    LET cfg == LOTTERY_CONFIG[inv[i].lottery_type]
        res == inv[i].result
    IN /\ Len(res.numbers) = cfg.numbers_count
       /\ Range(res.numbers) \subseteq 1..cfg.max_number
       /\ \A k \in 1..(Len(res.numbers) - 1) :
              res.numbers[k] < res.numbers[k + 1]
       /\ IF cfg.has_special
          THEN res.special_number \in
                   {Some(n) : n \in 1..DictGetDefault(cfg, "special_max",
                                                     cfg.max_number)}
          ELSE IsNone(res.special_number)
       /\ res.confidence_score \in 0..100

\* C13: requests in flight at once, each with its own AIRecommender, are
\* independent: under every interleaving a request's result meets the
\* postconditions of a call run alone and is the result of that call run
\* alone from the generator state the request met; what a suspended request
\* holds is what it selected itself; a request raises only for a type
\* without configuration.
C13_ConcurrentIndependent ==
    \A i \in Invocations :
        /\ inv[i].pc = "awaiting" =>
               inv[i].numbers =
                   BeginOutcome(inv[i].lottery_type, inv[i].strategy,
                                inv[i].statistics, inv[i].rng_in).numbers
        /\ inv[i].pc = "returned" =>
               /\ Postconditions(i)
               /\ inv[i].result = Alone(i).result
        /\ inv[i].pc = "raised" =>
               /\ inv[i].lottery_type \notin ConfiguredTypes
               /\ Alone(i).pc = "raised"

\* two requests for different lottery types have both returned, the first
\* having resumed while the second was suspended after drawing from the
\* generator the first had advanced
C13_Witness ==
    /\ inv[1].pc = "returned"
    /\ inv[2].pc = "returned"
    /\ inv[1].overlapped
    /\ inv[1].lottery_type # inv[2].lottery_type
    /\ inv[2].rng_in # inv[1].rng_in
    /\ inv[2].rng_in =
           BeginOutcome(inv[1].lottery_type, inv[1].strategy,
                        inv[1].statistics, inv[1].rng_in).rng

\* the frequency of the row of number n
FrequencyOf(n) ==
    Rows[CHOOSE i \in 1..Len(Rows) : Rows[i].number = n].frequency

\* what the random strategy returns from the generator state of the call
RandomResult == Sorted(GenerateRandom(Cfg, seed).value)

\* C14: under the hot strategy with at least numbers_count rows every
\* returned number is among the first 2 x numbers_count rows ranked by
\* frequency descending (fewer than 2 x numbers_count rows have a higher
\* frequency); with fewer rows, or none, the result is the random
\* strategy's over 1..max_number.
C14_HotPoolOrRandom ==
    (Returned /\ strategy = "hot") =>
        IF Len(Rows) >= Cfg.numbers_count
        THEN /\ Range(result.numbers) \subseteq HotPool
             /\ \A n \in Range(result.numbers) :
                    Cardinality({j \in 1..Len(Rows) :
                                    Rows[j].frequency > FrequencyOf(n)})
                        < 2 * Cfg.numbers_count
        ELSE result.numbers = RandomResult

\* the hot rule has sampled from statistics holding more rows than the pool
C14_Witness ==
    /\ Returned
    /\ strategy = "hot"
    /\ Len(Rows) > 2 * Cfg.numbers_count
    /\ Range(result.numbers) \subseteq HotPool
    /\ RowNumbers \ HotPool # {}

\* the candidates of the cold rule
ColdPool == Range(Numbers(Take(SortedByFrequency(Rows, FALSE),
                               Cfg.numbers_count * 2)))

\* C15: under the cold strategy with at least numbers_count rows every
\* returned number is among the first 2 x numbers_count rows ranked by
\* frequency ascending (fewer than 2 x numbers_count rows have a lower
\* frequency); with fewer rows, or none, the result is the random
\* strategy's over 1..max_number.
C15_ColdPoolOrRandom ==
    (Returned /\ strategy = "cold") =>
        IF Len(Rows) >= Cfg.numbers_count
        THEN /\ Range(result.numbers) \subseteq ColdPool
             /\ \A n \in Range(result.numbers) :
                    Cardinality({j \in 1..Len(Rows) :
                                    Rows[j].frequency < FrequencyOf(n)})
                        < 2 * Cfg.numbers_count
        ELSE result.numbers = RandomResult

\* the cold rule has met fewer rows than numbers_count and has returned the
\* random strategy's numbers, some of them without a row
C15_Witness ==
    /\ Returned
    /\ strategy = "cold"
    /\ Len(Rows) > 0
    /\ Len(Rows) < Cfg.numbers_count
    /\ result.numbers = RandomResult
    /\ Range(result.numbers) \ RowNumbers # {}

\* the numbers whose row has a non-null average_interval below its
\* current_interval, an average_interval of 0 included
NonNullOverdue ==
    {Rows[i].number : i \in {j \in 1..Len(Rows) :
        /\ ~IsNone(Rows[j].average_interval)
        /\ Rows[j].current_interval > Val(Rows[j].average_interval)}}

\* the eligible numbers the overdue rule computes
Eligible == Range(OverdueNumbers(Rows))

\* C16: under the overdue strategy the eligible set is exactly the numbers
\* whose row has a non-null average_interval and current_interval above it;
\* only a null average_interval excludes a number, so a row with
\* average_interval 0 and a positive current_interval is eligible.
C16_EligibleIffNonNullOverdue ==
    (Returned /\ strategy = "overdue" /\ Len(Rows) > 0) =>
        Eligible = NonNullOverdue

\* C17: under the overdue strategy with non-empty statistics, when at most
\* numbers_count numbers are eligible every eligible number is returned and
\* the other returned numbers are universe numbers that are not eligible;
\* when more are eligible every returned number is eligible.
C17_KeepAllThenFill ==
    (Returned /\ strategy = "overdue" /\ Len(Rows) > 0) =>
        IF Cardinality(NonNullOverdue) <= Cfg.numbers_count
        THEN /\ NonNullOverdue \subseteq Range(result.numbers)
             /\ Cardinality(Range(result.numbers) \ NonNullOverdue) =
                    Cfg.numbers_count - Cardinality(NonNullOverdue)
             /\ Range(result.numbers) \ NonNullOverdue \subseteq
                    (1..Cfg.max_number) \ NonNullOverdue
        ELSE Range(result.numbers) \subseteq NonNullOverdue

\* the balanced rule has run on statistics
Balanced ==
    /\ Returned
    /\ strategy \notin {"random", "hot", "cold", "overdue"}
    /\ Len(Rows) > 0

\* the three parts of the list the balanced rule produced
SortedRows == SortedByFrequency(Rows, TRUE)
PickedHot == SelectedHot(Cfg, SortedRows, seed).value
PickedCold ==
    SelectedCold(Cfg, SortedRows, SelectedHot(Cfg, SortedRows, seed)).value
PickedRandom ==
    SubSeq(Selected, Len(PickedHot) + Len(PickedCold) + 1, Len(Selected))

\* P of the ranked rows and of the hot, cold and random parts of the list
\* the balanced rule produced, each computed once
ForParts(P(_, _, _, _)) ==
    \A sr \in {SortedRows} :
        \A h \in {SelectedHot(Cfg, sr, seed)} :
            \A c \in {SelectedCold(Cfg, sr, h)} :
                \A all \in {BalancedFill(Cfg, h, c).value} :
                    P(sr, h.value, c.value,
                      SubSeq(all, Len(h.value) + Len(c.value) + 1, Len(all)))

\* the shares of the three numbers_count values configured
ShareTable ==
    [n \in {5, 6, 12} |->
        IF n = 5 THEN [hot |-> 2, cold |-> 1, rest |-> 2]
        ELSE IF n = 6 THEN [hot |-> 2, cold |-> 1, rest |-> 3]
        ELSE [hot |-> 4, cold |-> 3, rest |-> 5]]

\* the quota arithmetic on the three parts
QuotaHolds(sr, hot, cold, rest) ==
    /\ HotCount(Cfg) = ShareTable[Cfg.numbers_count].hot
    /\ ColdCount(Cfg) = ShareTable[Cfg.numbers_count].cold
    /\ HotCount(Cfg) + ColdCount(Cfg) <= Cfg.numbers_count
    /\ Len(hot) <= HotCount(Cfg)
    /\ Len(cold) <= ColdCount(Cfg)
    /\ Cfg.numbers_count - Len(hot) - Len(cold) >= 0
    /\ Len(rest) = Cfg.numbers_count - Len(hot) - Len(cold)
    /\ Len(hot) + Len(cold) + Len(rest) = Cfg.numbers_count
    /\ Len(result.numbers) = Cfg.numbers_count
    /\ (Len(hot) = HotCount(Cfg) /\ Len(cold) = ColdCount(Cfg))
           => Len(rest) = ShareTable[Cfg.numbers_count].rest

\* C18: under the balanced strategy hot_share = max(1, 2n div 5) and
\* cold_share = max(1, 3n div 10) with n = numbers_count (2/1 for 6 and 5,
\* 4/3 for 12); hot_share + cold_share <= n; the remainder n - hot picked -
\* cold picked is never negative and the three parts sum to n; when both
\* shares fill the parts are 2/1/3, 2/1/2 and 4/3/5.
C18_BalancedQuota == Balanced => ForParts(QuotaHolds)

\* the balanced rule has filled both shares for a game of 12 numbers
C18_Witness ==
    /\ Balanced
    /\ Cfg.numbers_count = 12
    /\ Len(PickedHot) = 4
    /\ Len(PickedCold) = 3
    /\ Len(PickedRandom) = 5

\* the candidates of the two shares of the balanced rule
BalancedHotPool ==
    Range(Numbers(Take(SortedRows, HotCount(Cfg) * 2)))
BalancedColdPool ==
    Range(Numbers(TakeLast(SortedRows, ColdCount(Cfg) * 2)))

\* how many rows have a frequency above (below) that of row k of the ranking
RowsAbove(sr, k) ==
    Cardinality({j \in 1..Len(sr) : sr[j].frequency > sr[k].frequency})
RowsBelow(sr, k) ==
    Cardinality({j \in 1..Len(sr) : sr[j].frequency < sr[k].frequency})

\* the parts against the pools hot_pool and cold_pool
PartsFromPools(sr, hot, cold, rest, hot_pool, cold_pool) ==
    /\ hot \subseteq hot_pool
    /\ Cardinality(hot) = Min(HotCount(Cfg), Cardinality(hot_pool))
    /\ cold \subseteq cold_pool \ hot
    /\ Cardinality(cold) = Min(ColdCount(Cfg), Cardinality(cold_pool \ hot))
    /\ Cardinality(hot_pool) < HotCount(Cfg) => hot = hot_pool
    /\ Cardinality(cold_pool \ hot) < ColdCount(Cfg) => cold = cold_pool \ hot
    /\ rest \subseteq (1..Cfg.max_number) \ (hot \cup cold)
    /\ hot \cap cold = {}
    /\ Range(result.numbers) = hot \cup cold \cup rest
    /\ Cardinality(Range(result.numbers) \cap hot_pool) >=
           Min(HotCount(Cfg), Cardinality(hot_pool))

\* the pools are the top 2 x hot_share and the bottom 2 x cold_share rows by
\* frequency, and the parts are picked from them
PartsHold(sr, hot, cold, rest) ==
    /\ \A k \in 1..Min(Len(sr), 2 * HotCount(Cfg)) :
           RowsAbove(sr, k) < 2 * HotCount(Cfg)
    /\ \A k \in Max(1, Len(sr) - 2 * ColdCount(Cfg) + 1)..Len(sr) :
           RowsBelow(sr, k) < 2 * ColdCount(Cfg)
    /\ Cardinality(Range(rest)) = Len(rest)
    /\ PartsFromPools(sr, Range(hot), Range(cold), Range(rest),
                      Range(Numbers(Take(sr, HotCount(Cfg) * 2))),
                      Range(Numbers(TakeLast(sr, ColdCount(Cfg) * 2))))

\* C19: under the balanced strategy with non-empty statistics the result
\* holds min(hot_share, |hot pool|) numbers picked from the top
\* 2 x hot_share rows by frequency and, disjoint from them,
\* min(cold_share, |cold pool minus the hot picks|) numbers picked from the
\* bottom 2 x cold_share rows; a pool smaller than its share is taken whole;
\* the remainder is drawn from universe numbers not yet chosen; hot, cold
\* and random picks never overlap.
C19_BalancedParts == Balanced => ForParts(PartsHold)

\* the balanced rule has run on three rows: the two pools overlap, the hot
\* share is filled, and the one row left makes the cold share
C19_Witness ==
    /\ Balanced
    /\ Len(Rows) = 3
    /\ BalancedHotPool \cap BalancedColdPool # {}
    /\ Len(PickedHot) = HotCount(Cfg)
    /\ Range(PickedCold) = BalancedColdPool \ Range(PickedHot)
    /\ Len(PickedCold) = 1
    /\ Range(PickedRandom) \cap RowNumbers = {}

\* the score of one row, in thousandths, with the interval component 0.5
\* whenever average_interval is non-null (0 included) and current_interval
\* is above it, and 0.3 otherwise
NonNullScore(stat) ==
    Min(stat.frequency, 100) * 5
        + (IF /\ ~IsNone(stat.average_interval)
              /\ stat.current_interval > Val(stat.average_interval)
           THEN 500 ELSE 300)

\* the sum of NonNullScore over the returned numbers from position i on that
\* have a row
RECURSIVE NonNullTotal(_)
NonNullTotal(i) ==
    IF i > Len(result.numbers) THEN 0
    ELSE (IF result.numbers[i] \in RowNumbers
          THEN NonNullScore(StatsDictGet(Rows, result.numbers[i])) ELSE 0)
         + NonNullTotal(i + 1)

\* C20: with non-empty statistics confidence_score is the sum, over the
\* selected numbers that have a row, of min(frequency/100, 1.0) x 0.5 plus
\* the interval component, divided by numbers_count and rounded to two
\* decimals; the interval component is 0.5 exactly when current_interval and
\* average_interval are both non-null (0 counting as present) and
\* current_interval > average_interval, and 0.3 otherwise; numbers without a
\* row add nothing and still count in the divisor.
C20_ConfidenceFormula ==
    (Returned /\ Len(Rows) > 0) =>
        result.confidence_score =
            RoundHalfEven(NonNullTotal(1), 10 * Cfg.numbers_count)

-----------------------------------------------------------------------------
(* C21..C30 *)

\* the states of the generator
GeneratorStates == 0..65535

\* for every type with a special number, each value of 1..special_max is
\* drawn from some state of the generator
EverySpecialValuePossible ==
    \A lt \in {t \in ConfiguredTypes : LOTTERY_CONFIG[t].has_special} :
        \A v \in 1..LOTTERY_CONFIG[lt].special_max :
            \E r \in GeneratorStates :
                GenerateSpecial(LOTTERY_CONFIG[lt], r).value = Some(v)

\* C21: the special number is drawn independently of the main numbers: for
\* a type with has_special every value of 1..special_max can be drawn, and
\* the value returned is the one drawn from the generator as the selection
\* left it, whatever the strategy and the main numbers, also when it equals
\* one of them (no collision check, no retry).
C21_SpecialDrawnIndependently ==
    /\ EverySpecialValuePossible
    /\ (Returned /\ Cfg.has_special) =>
           \A sel \in {SelectNumbers(Cfg, strategy, statistics, seed)} :
               /\ result.special_number =
                      Some(RandInt(sel.rng, 1, Cfg.special_max).value)
               /\ rng = RandInt(sel.rng, 1, Cfg.special_max).rng

\* a special number equal to one of the main numbers has been returned
C21_Witness ==
    /\ Returned
    /\ Cfg.has_special
    /\ ~IsNone(result.special_number)
    /\ Val(result.special_number) \in Range(result.numbers)
    /\ strategy \in {"hot", "cold", "overdue", "balanced"}

\* C22: create_recommendation bills after the engine has returned.  A request
\* that has been billed (it owns a CreditTransaction or a Recommendation) holds
\* the engine's result and passed the credit check before; a request whose
\* engine call raised owns no record; there are exactly as many records
\* as requests that were billed, and while no request has been billed every
\* user's credits are those of registration.
C22_BillingAfterEngine ==
    /\ \A i \in Requests :
           /\ req[i].pc \in {"generated", "committed"}
                  => req[i].engine # NoResult
           /\ req[i].engine # NoResult
                  => /\ req[i].kind = "create_recommendation"
                     /\ req[i].pc \in {"generated", "committed", "responded"}
           /\ req[i].recommendation # 0
                  => /\ req[i].engine # NoResult
                     /\ req[i].transaction # 0
                     /\ recommendations[req[i].recommendation]
                            .recommended_numbers = req[i].engine.numbers
           /\ (req[i].transaction # 0
                   /\ req[i].kind = "create_recommendation")
                  => req[i].recommendation # 0
           /\ req[i].response.status = 500
                  => /\ req[i].engine = NoResult
                     /\ req[i].transaction = 0
                     /\ req[i].recommendation = 0
    /\ Len(credit_transactions)
           = Cardinality({i \in Requests : req[i].transaction # 0})
    /\ Len(recommendations)
           = Cardinality({i \in Requests : req[i].recommendation # 0})
    /\ (\A i \in Requests : req[i].transaction = 0)
           => users = RegisteredUsers

\* the engine raised for an unknown lottery type and nothing was stored
C22_Witness ==
    \E i \in Requests :
        /\ req[i].kind = "create_recommendation"
        /\ req[i].lottery_type \notin DOMAIN LOTTERY_CONFIG
        /\ req[i].response = ErrorResponse(500, "INTERNAL_ERROR", <<>>)
        /\ users = RegisteredUsers
        /\ credit_transactions = <<>>
        /\ recommendations = <<>>

\* C23: a step of a create_recommendation request whose user has fewer
\* credits than RECOMMENDATION_COST * count ends the request with 402
\* INSUFFICIENT_CREDITS, details required = RECOMMENDATION_COST * count and
\* available = the balance its session holds, and changes neither the users,
\* nor the transactions, nor the recommendations; the engine is not invoked (no
\* result is held, the generator is not advanced) and the request takes no
\* further step.
C23_InsufficientCreditsChangesNothing ==
    [][\A i \in Requests :
        /\ (/\ req[i].kind = "create_recommendation"
            /\ req[i].pc = "authenticated"
            /\ req[i].credits < RECOMMENDATION_COST * req[i].count
            /\ req'[i] # req[i])
               => /\ req'[i] =
                        [req[i] EXCEPT
                            !.pc = "responded",
                            !.response =
                                [status |-> 402,
                                 error_code |-> "INSUFFICIENT_CREDITS",
                                 details |->
                                     [required |->
                                          RECOMMENDATION_COST * req[i].count,
                                      available |-> req[i].credits],
                                 data |-> <<>>]]
                  /\ req'[i].engine = NoResult
                  /\ UNCHANGED <<users, credit_transactions,
                                 recommendations, rng>>
        /\ req[i].response.status = 402 => req'[i] = req[i]]_vars

\* a request for more recommendations than the user can pay was refused
C23_Witness ==
    \E i \in Requests :
        /\ req[i].kind = "create_recommendation"
        /\ req[i].response.status = 402
        /\ req[i].response.details.available < req[i].response.details.required
        /\ req[i].engine = NoResult
        /\ req[i].transaction = 0

\* C24: the stored credits of every user are never negative, whatever
\* create_recommendation and purchase_credits requests were served and
\* however their steps overlapped.
C24_CreditsNeverNegative ==
    \A u \in DOMAIN users : users[u].credits >= 0

\* two requests of one user for ten recommendations each overlapped and both
\* were billed
C24_Witness ==
    /\ Len(credit_transactions) = 2
    /\ \A k \in 1..2 :
           /\ credit_transactions[k].user_id = 1
           /\ credit_transactions[k].amount = 0 - INITIAL_CREDITS
           /\ credit_transactions[k].balance_before = INITIAL_CREDITS
    /\ users[1].credits = 0

\* the sum of the amounts of the first k transactions that belong to user u
RECURSIVE SumOfAmounts(_, _, _)
SumOfAmounts(rows, u, k) ==
    IF k = 0 THEN 0
    ELSE SumOfAmounts(rows, u, k - 1)
             + (IF rows[k].user_id = u THEN rows[k].amount ELSE 0)

\* C25: for every user the stored credits equal INITIAL_CREDITS plus the sum
\* of the amounts of the user's committed CreditTransaction records, in
\* every interleaving of create_recommendation and purchase_credits requests.
C25_LedgerConsistent ==
    \A u \in DOMAIN users :
        users[u].credits =
            INITIAL_CREDITS
                + SumOfAmounts(credit_transactions, u,
                               Len(credit_transactions))

\* C26: the commit of a create_recommendation request for count = k lowers
\* the stored credits of its user by exactly RECOMMENDATION_COST * k and adds
\* exactly one Recommendation (credits_used = RECOMMENDATION_COST * k, the
\* requested strategy) and exactly one CreditTransaction ("recommendation",
\* amount = -RECOMMENDATION_COST * k); when the request completes, the
\* reference_id of that transaction is the id of that Recommendation.
C26_SuccessfulRecommendationBilledExactly ==
    [][\A i \in Requests :
        /\ (req[i].pc = "generated" /\ req'[i].pc = "committed")
               => /\ users'[req[i].user].credits =
                        users[req[i].user].credits
                            - RECOMMENDATION_COST * req[i].count
                  /\ Len(recommendations') = Len(recommendations) + 1
                  /\ SubSeq(recommendations', 1, Len(recommendations))
                         = recommendations
                  /\ \E row \in {recommendations'[Len(recommendations')]} :
                         /\ row.user_id = req[i].user
                         /\ row.credits_used =
                                RECOMMENDATION_COST * req[i].count
                         /\ row.strategy = req[i].strategy
                  /\ Len(credit_transactions') = Len(credit_transactions) + 1
                  /\ SubSeq(credit_transactions', 1, Len(credit_transactions))
                         = credit_transactions
                  /\ \E row \in
                             {credit_transactions'[Len(credit_transactions')]} :
                         /\ row.user_id = req[i].user
                         /\ row.transaction_type = "recommendation"
                         /\ row.amount =
                                0 - RECOMMENDATION_COST * req[i].count
        /\ (req[i].pc = "committed" /\ req'[i].pc = "responded")
               => /\ req'[i].response.status = 200
                  /\ credit_transactions'[req[i].transaction].reference_id
                         = Some(req'[i].response.data.id)
                  /\ recommendations'[req[i].recommendation]
                         = req'[i].response.data
                  /\ Len(credit_transactions') = Len(credit_transactions)
                  /\ UNCHANGED <<users, recommendations>>]_vars

\* the transactions of the user of transaction k recorded before it
EarlierOfUser(rows, k) ==
    {j \in 1..(k - 1) : rows[j].user_id = rows[k].user_id}

\* the balance the user of transaction k had before it, by the log
BalanceBy(rows, k) ==
    IF EarlierOfUser(rows, k) = {} THEN INITIAL_CREDITS
    ELSE rows[CHOOSE j \in EarlierOfUser(rows, k) :
                  \A m \in EarlierOfUser(rows, k) : m <= j].balance_after

\* C27: every CreditTransaction has balance_after = balance_before + amount,
\* with a negative amount for a recommendation and a positive one for a
\* purchase; when requests are served one after the other, the
\* balance_before of each transaction is the balance_after of the previous
\* transaction of the same user, INITIAL_CREDITS for the first.
C27_TransactionBalancesChain ==
    \A k \in 1..Len(credit_transactions) :
        /\ credit_transactions[k].balance_after =
               credit_transactions[k].balance_before
                   + credit_transactions[k].amount
        /\ credit_transactions[k].transaction_type = "recommendation"
               => credit_transactions[k].amount < 0
        /\ credit_transactions[k].transaction_type = "purchase"
               => credit_transactions[k].amount > 0
        /\ credit_transactions[k].balance_before =
               BalanceBy(credit_transactions, k)

\* a purchase followed by a recommendation of the same user
C27_Witness ==
    /\ Len(credit_transactions) = 2
    /\ credit_transactions[1].user_id = credit_transactions[2].user_id
    /\ credit_transactions[1].transaction_type = "purchase"
    /\ credit_transactions[2].transaction_type = "recommendation"
    /\ credit_transactions[2].balance_before # INITIAL_CREDITS
    /\ credit_transactions[2].balance_before
           = credit_transactions[1].balance_after

\* the stored recommendations that belong to request i's user
OwnRecommendations(i) ==
    {recommendations[k] : k \in {j \in 1..Len(recommendations) :
        recommendations[j].user_id = req[i].user}}

\* C28: get_recommendation and get_recommendations answer with records of
\* the authenticated user only; get_recommendation answers the id of
\* another user's record with the same NotFoundError as an id that no
\* record has; neither handler changes users, transactions or
\* recommendations.
C28_RecommendationsIsolatedPerUser ==
    [][\A i \in Requests :
        (/\ req[i].pc = "authenticated"
         /\ req[i].kind \in {"get_recommendation", "get_recommendations"}
         /\ req'[i] # req[i])
            => /\ UNCHANGED <<users, credit_transactions, recommendations>>
               /\ req'[i].pc = "responded"
               /\ req[i].kind = "get_recommendation"
                      => IF \E row \in OwnRecommendations(i) :
                                row.id = req[i].id
                         THEN /\ req'[i].response.status = 200
                              /\ req'[i].response.data
                                     \in OwnRecommendations(i)
                              /\ req'[i].response.data.id = req[i].id
                         ELSE req'[i].response =
                                  [status |-> 404, error_code |-> "NOT_FOUND",
                                   details |-> <<>>, data |-> <<>>]
               /\ req[i].kind = "get_recommendations"
                      => /\ req'[i].response.status = 200
                         /\ Range(req'[i].response.data)
                                \subseteq OwnRecommendations(i)
                         /\ req[i].lottery_type = ""
                                => Range(req'[i].response.data)
                                       = OwnRecommendations(i)]_vars

\* a user asked for the recommendation of another user and got NotFound
C28_Witness ==
    \E i \in Requests :
        /\ req[i].kind = "get_recommendation"
        /\ req[i].response.status = 404
        /\ \E k \in 1..Len(recommendations) :
               /\ recommendations[k].id = req[i].id
               /\ recommendations[k].user_id # req[i].user

\* the packages on sale with the id request i names
ActivePackages(i) ==
    {CreditPackages[k] : k \in {j \in 1..Len(CreditPackages) :
        /\ CreditPackages[j].id = req[i].id
        /\ CreditPackages[j].is_active = 1}}

\* C29: purchase_credits with the id of an existing active package raises the
\* stored credits of the user by exactly credits + bonus_credits of the
\* package and records one CreditTransaction of type "purchase" with that
\* amount and reference_id = the package id; with a missing or inactive
\* package it answers 404 PACKAGE_NOT_FOUND and leaves the credits and the
\* transactions unchanged.
C29_PurchaseAddsPackageCredits ==
    [][\A i \in Requests :
        (/\ req[i].pc = "authenticated"
         /\ req[i].kind = "purchase_credits"
         /\ req'[i] # req[i])
            => IF ActivePackages(i) = {}
               THEN /\ req'[i].response =
                           [status |-> 404,
                            error_code |-> "PACKAGE_NOT_FOUND",
                            details |-> <<>>, data |-> <<>>]
                    /\ UNCHANGED <<users, credit_transactions>>
               ELSE \E package \in ActivePackages(i) :
                    /\ req'[i].response.status = 200
                    /\ users'[req[i].user].credits =
                           users[req[i].user].credits
                               + package.credits + package.bonus_credits
                    /\ Len(credit_transactions')
                           = Len(credit_transactions) + 1
                    /\ SubSeq(credit_transactions', 1,
                              Len(credit_transactions))
                           = credit_transactions
                    /\ \E row \in
                           {credit_transactions'[Len(credit_transactions')]} :
                           /\ row.user_id = req[i].user
                           /\ row.transaction_type = "purchase"
                           /\ row.amount =
                                  package.credits + package.bonus_credits
                           /\ row.reference_id = Some(package.id)]_vars

\* the token was issued by the server, with the type given, to a user that
\* exists and is active
IssuedToActiveUser(token, type) ==
    /\ token.signed
    /\ token.type = type
    /\ token.sub \in DOMAIN users
    /\ users[token.sub].is_active

\* the refresh endpoint issues tokens exactly for refresh tokens of existing
\* active users, and answers everything else with TOKEN_INVALID
RefreshOnlyWithRefreshToken ==
    \A i \in Requests :
        (req[i].kind = "refresh" /\ req[i].pc = "responded")
            => IF IssuedToActiveUser(req[i].token, "refresh")
               THEN /\ req[i].response.status = 200
                    /\ req[i].response.data.access_token
                           = CreateAccessToken(req[i].token.sub)
                    /\ req[i].response.data.refresh_token
                           = CreateRefreshToken(req[i].token.sub)
               ELSE req[i].response =
                        [status |-> 401, error_code |-> "TOKEN_INVALID",
                         details |-> <<>>, data |-> <<>>]

\* get_current_user lets a request through exactly with an access token of an
\* existing active user
AuthenticatedOnlyWithAccessToken ==
    \A i \in Requests :
        (req[i].kind \notin {"", "refresh"} /\ req[i].pc # "idle")
            => IF IssuedToActiveUser(req[i].token, "access")
               THEN /\ req[i].response.status # 401
                    /\ req[i].user = req[i].token.sub
               ELSE /\ req[i].pc = "responded"
                    /\ req[i].response.status = 401

\* C30: token types are not interchangeable: the refresh endpoint issues new
\* tokens only for a refresh token of an existing active user (an access
\* token is answered with TOKEN_INVALID), and get_current_user authenticates
\* a request only with an access token of an existing active user (a refresh
\* token, a token of an unknown or of an inactive user is rejected).
C30_TokenTypesNotInterchangeable ==
    /\ RefreshOnlyWithRefreshToken
    /\ AuthenticatedOnlyWithAccessToken
====
